---- MODULE Spec2Model ----
(***************************************************************************)
(* A model of the genetic-algorithm engine of src/core.py: Genus,          *)
(* Organism (construction, breed, mutate), Population (construction,       *)
(* get_fit_organisms, evolve) and History (add_entry).                     *)
(*                                                                         *)
(* Conventions.                                                            *)
(*  - An organism is modelled by its attribute dictionary (__dict__): a    *)
(*    function from attribute names to values.  Organism.__init__ stores   *)
(*    the gene values AND the attribute "genus" in that one dictionary.    *)
(*  - A Genus object is modelled by its identity (a number); GenusDict     *)
(*    gives its __dict__, a function from gene names to domains.           *)
(*  - A random draw is a nondeterministic choice, so an operation is an    *)
(*    operator that yields the SET of its possible outcomes.  An outcome   *)
(*    is [exc |-> "none", val |-> v] for a return of v, or                 *)
(*    [exc |-> e, val |-> None] for a raise of e.                          *)
(*  - Fitness values are integers; a probability fitness/sum is kept as    *)
(*    an exact fraction (rounding of floats is not modelled), with the     *)
(*    IEEE values nan, inf, -inf that a division by a zero sum produces.   *)
(*  - Line 170 of src/core.py reads "org.__dict__for org in pop"; it is    *)
(*    modelled as the comprehension "org.__dict__ for org in pop".         *)
(***************************************************************************)
EXTENDS Integers, Sequences, FiniteSets, TLC

\* ---------------------------------------------------------------- bounds
\* Gene values range over 1..MaxVal.
MaxVal == 2
\* Population sizes range over 1..MaxSize.
MaxSize == 2
\* evolve is called with generations = 0 or generations = MaxGenerations.
MaxGenerations == 1
\* The worker pool has one worker or MaxWorkers workers.
MaxWorkers == 2
\* A uniform sample u in [0,1) is one of 0/UDen, 1/UDen, ..., (UDen-1)/UDen.
UDen == 3
\* History.add_entry is called at most MaxEntries times, each time with a
\* batch of 1..MaxBatch fitnesses in -MaxFit..MaxFit.
MaxEntries == 2
MaxBatch == 2
MaxFit == 1

\* ------------------------------------------------------------ Genus
\* The Genus objects of the model, by identity.
Genera == {1, 2}

\* Genus.__dict__ after Genus.__init__(**genomes): gene name -> domain.
GenusDict(genus) ==
  IF genus = 1 THEN [x |-> 1..MaxVal, y |-> 1..2]
               ELSE [x |-> 1..MaxVal]

\* Gene values a caller may supply: the valid ones and one outside every domain.
Vals == 1..(MaxVal + 1)

\* Python's None, where an organism dictionary is expected.
None == [genus |-> 0]

Return(v) == [exc |-> "none", val |-> v]
Raise(e) == [exc |-> e, val |-> None]

\* ------------------------------------------------------------ Organism
\* The functions f on keys with f[k] in dom[k] for every k: one random
\* choice from each key's domain.
Choices(keys, dom) ==
  {f \in [keys -> Vals] : \A k \in keys : f[k] \in dom[k]}

\* A faulty Organism.__init__: it drops the invalid entries and leaves the
\* genes they leave missing without a value.
Organism__init__NoFill(genus, genome) ==
  LET gd == GenusDict(genus)
      kept == {k \in DOMAIN genome : k \in DOMAIN gd /\ genome[k] \in gd[k]}
  IN  {[k \in kept \cup {"genus"} |->
          IF k = "genus" THEN genus ELSE genome[k]]}

\* A faulty Organism.__init__: it checks the keys and not the values.
Organism__init__Unfiltered(genus, genome) ==
  LET gd == GenusDict(genus)
      kept == {k \in DOMAIN genome : k \in DOMAIN gd}
      missing == DOMAIN gd \ kept
  IN  {[k \in kept \cup missing \cup {"genus"} |->
          IF k = "genus" THEN genus
          ELSE IF k \in kept THEN genome[k] ELSE fill[k]] :
        fill \in Choices(missing, gd)}

\* Organism.__init__(self, genus, **genome): the possible __dict__ of the new
\* organism.  Entries whose key is no gene of the genus or whose value is not
\* in the gene's domain are dropped, every gene then missing gets a random
\* value of its domain, and the attribute genus is stored next to the genes.
Organism__init__(genus, genome) ==
  LET gd == GenusDict(genus)
      kept == {k \in DOMAIN genome : k \in DOMAIN gd /\ genome[k] \in gd[k]}
      missing == DOMAIN gd \ kept
  IN  {[k \in kept \cup missing \cup {"genus"} |->
          IF k = "genus" THEN genus
          ELSE IF k \in kept THEN genome[k] ELSE fill[k]] :
        fill \in Choices(missing, gd)}

\* The call Organism(genus, **kwargs).  Python binds the keyword arguments
\* before the body runs: a keyword named like the parameter genus is a
\* TypeError ("got multiple values for argument 'genus'").
Organism(genus, kwargs) ==
  IF "genus" \in DOMAIN kwargs
    THEN {Raise("TypeError")}
    ELSE {Return(o) : o \in Organism__init__(genus, kwargs)}

\* Genus.create_organisms, one organism: Organism(genus = self, **{key :
\* np.random.choice(self.__dict__[key]) for key in self.__dict__.keys()}).
create_organism(genus) ==
  UNION {Organism(genus, g) :
           g \in Choices(DOMAIN GenusDict(genus), GenusDict(genus))}

\* Organism.breed(self, other).  The child's keyword arguments are built
\* over self.__dict__.keys(), each value chosen between the two parents',
\* and handed to Organism(self.genus, **child_genome).
breed(self, other) ==
  IF self.genus # other.genus
    THEN {Raise("Exception")}
    ELSE UNION {Organism(self.genus, child_genome) :
                  child_genome \in
                    {c \in [DOMAIN self -> Vals \cup Genera] :
                       \A key \in DOMAIN self : c[key] \in {self[key], other[key]}}}

\* The masks np.less(np.random.random(keys.size), 1 / keys.size) can give:
\* a draw lies in [0,1), so with one key the mask is always set.
MutationMasks(keys) ==
  IF Cardinality(keys) = 1 THEN {keys} ELSE SUBSET keys

\* Organism.mutate(self): keys are self.__dict__.keys(); every masked key is
\* looked up in self.genus.__dict__ (a KeyError when it is no gene) and gets
\* a random value of its domain; the dictionary is updated only after all
\* values are drawn.  The value returned is self, updated.
mutate(self) ==
  LET keys == DOMAIN self
      gd == GenusDict(self.genus)
  IN  UNION {IF \E key \in mut : key \notin DOMAIN gd
               THEN {Raise("KeyError")}
               ELSE {Return([k \in keys |->
                               IF k \in mut THEN mut_vals[k] ELSE self[k]]) :
                       mut_vals \in Choices(mut, gd)} :
             mut \in MutationMasks(keys)}

\* The organisms construction can produce for a genus.
Organisms(genus) == {r.val : r \in create_organism(genus)}

\* Population.__init__ builds a list of organisms; a list result is
\* [exc |-> "none", all |-> list] and a raise is [exc |-> e, all |-> << >>].
ReturnAll(list) == [exc |-> "none", all |-> list]
RaiseAll(e) == [exc |-> e, all |-> << >>]

\* A list comprehension over calls that may raise: the first raise aborts
\* it, otherwise it yields the list of the returned values.
Collect(rs) ==
  IF \E i \in DOMAIN rs : rs[i].exc # "none"
    THEN LET i == CHOOSE j \in DOMAIN rs :
                    /\ rs[j].exc # "none"
                    /\ \A l \in DOMAIN rs : l < j => rs[l].exc = "none"
         IN  RaiseAll(rs[i].exc)
    ELSE ReturnAll([i \in DOMAIN rs |-> rs[i].val])

\* Genus.create_organisms(amount): amount independent random organisms.
create_organisms(genus, amount) ==
  {Collect(rs) : rs \in [1..amount -> create_organism(genus)]}

\* ------------------------------------------------------------ floats
\* fitness / sum as numpy computes it: an exact fraction n/d with d > 0
\* when the sum is not zero; nan, inf or -inf (with a warning, no raise)
\* when the sum is zero.
Fin(n, d) == [k |-> "fin", n |-> n, d |-> d]
NaN == [k |-> "nan", n |-> 0, d |-> 1]
Inf == [k |-> "inf", n |-> 0, d |-> 1]
NegInf == [k |-> "-inf", n |-> 0, d |-> 1]

Divide(f, s) ==
  IF s > 0 THEN Fin(f, s)
  ELSE IF s < 0 THEN Fin(0 - f, 0 - s)
  ELSE IF f > 0 THEN Inf
  ELSE IF f < 0 THEN NegInf
  ELSE NaN

\* x + y on two quotients by the same sum.
Plus(x, y) ==
  IF x.k = "nan" \/ y.k = "nan" THEN NaN
  ELSE IF x.k = "fin" /\ y.k = "fin" THEN Fin(x.n + y.n, x.d)
  ELSE IF x.k = "fin" THEN y
  ELSE IF y.k = "fin" THEN x
  ELSE IF x.k = y.k THEN x
  ELSE NaN

\* x > u / UDen; every comparison with nan is False.
Greater(x, u) ==
  CASE x.k = "fin" -> x.n * UDen > u * x.d
    [] x.k = "inf" -> TRUE
    [] OTHER -> FALSE

\* The order np.argsort sorts by: -inf, the finite values, inf, and nan last.
Rank(x) ==
  CASE x.k = "-inf" -> 0 [] x.k = "fin" -> 1 [] x.k = "inf" -> 2 [] OTHER -> 3

SortsBefore(x, y) ==
  \/ Rank(x) < Rank(y)
  \/ Rank(x) = 1 /\ Rank(y) = 1 /\ x.n < y.n

\* sum(fitnesses)
RECURSIVE Sum(_)
Sum(seq) == IF seq = << >> THEN 0 ELSE Head(seq) + Sum(Tail(seq))

\* ------------------------------------------------- Population: selection
\* np.divide(fitnesses, sum(fitnesses))
Probabilities(fitnesses) ==
  [i \in DOMAIN fitnesses |-> Divide(fitnesses[i], Sum(fitnesses))]

IndexOrders(n) ==
  {p \in [1..n -> 1..n] : \A i, j \in 1..n : i # j => p[i] # p[j]}

\* np.argsort(probs)[::-1]: the index orders that put the probabilities in
\* descending order.  The order of equal values is the sort's choice.
sorted_idx(probs) ==
  {p \in IndexOrders(Len(probs)) :
     \A i, j \in 1..Len(probs) :
       i < j => ~SortsBefore(probs[p[j]], probs[p[i]])}

\* reduce(fn, map(lambda x: (1, x), probs)) with
\*   fn = lambda x, y: (x[0], x[1] + y[1]) if x[1] + y[1] > u
\*                     else (x[0] + y[0], x[1] + y[1]).
\* reduce has no initial value: the first pair (1, probs[0]) is the start
\* and fn is first applied to it and the second pair.
RECURSIVE ReduceFrom(_, _, _, _)
ReduceFrom(x, probs, j, u) ==
  IF j > Len(probs) THEN x
  ELSE LET acc == Plus(x[2], probs[j])
       IN  ReduceFrom(IF Greater(acc, u) THEN <<x[1], acc>>
                                         ELSE <<x[1] + 1, acc>>,
                      probs, j + 1, u)

\* The position in the sorted population the loop of lines 160-167 finds
\* for the random number u / UDen.  Positions count from 1 here, so idx of
\* the code (whose index is idx - 1, from 0) is the position itself.
FitIndex(probs, u) == ReduceFrom(<<1, probs[1]>>, probs, 2, u)[1]

\* ------------------------------------------------------------ History
\* History.__init__
NewHistory ==
  [genome_history |-> << >>, fitness_history |-> << >>,
   fittest |-> [genome |-> None, fitness |-> 0]]

\* max(fitnesses) and np.argmax(fitnesses), the first index of the maximum
Max(seq) == CHOOSE m \in {seq[i] : i \in DOMAIN seq} : \A i \in DOMAIN seq : seq[i] <= m
ArgMax(seq) ==
  CHOOSE i \in DOMAIN seq :
    seq[i] = Max(seq) /\ \A j \in DOMAIN seq : j < i => seq[j] # Max(seq)

\* History.add_entry(cache): the history after the call.
add_entry(self, cache) ==
  LET genomes == cache.genomes
      fitnesses == cache.fitnesses
      better == Max(fitnesses) > self.fittest.fitness
  IN  [genome_history |-> Append(self.genome_history, genomes),
       fitness_history |-> Append(self.fitness_history, fitnesses),
       fittest |-> IF better
                     THEN [genome |-> genomes[ArgMax(fitnesses)],
                           fitness |-> Max(fitnesses)]
                     ELSE self.fittest]

\* ------------------------------------------------------------ state
VARIABLES
  call,            \* the last call made on an organism: operation and arguments
  ret,             \* and its outcome
  after,           \* the organisms self and other as the call left them
  pc,              \* where the program stands: "start", "ready" once the
                   \* Population is built, then inside evolve "fitness",
                   \* "select", "record", "breed", and at its end "returned"
                   \* or "raised"; "called" after a call on an organism
  err,             \* the exception that ended the program, or "none"
  initial_genome,  \* Population.__init__'s argument
  genus, size, fitness_fn, population,    \* the Population's fields
  generations, multiprocessing, workers,  \* evolve's arguments
  generation,      \* evolve's loop variable: generations completed
  fitnesses,       \* get_fit_organisms: the fitnesses array
  taskqueue,       \* Pool: the next task (organism index) to hand out
  running,         \* Pool: worker -> the task it computes, 0 when idle
  outqueue,        \* Pool: <<task, value>> results, in order of completion
  yielded,         \* how many results the loop over fit_iter has taken
  calls,           \* how often the evaluator ran on each organism
  probs,           \* get_fit_organisms: probabilities, sorted descending
  rand,            \* get_fit_organisms: np.random.rand(amount), as u / UDen
  indices,         \* get_fit_organisms: the positions found for rand
  fit_organisms,   \* evolve: the organisms selected to breed
  cache,           \* evolve: the genomes and fitnesses of the generation
  history          \* a History object (evolve's local, or the caller's)

orgVars == <<call, ret, after>>
popVars == <<initial_genome, genus, size, fitness_fn, population>>
argVars == <<generations, multiprocessing, workers>>
poolVars == <<taskqueue, running, outqueue, yielded>>
selVars == <<probs, rand, indices, fit_organisms, cache>>
vars == <<call, ret, after, pc, err, initial_genome, genus, size, fitness_fn,
          population, generations, multiprocessing, workers, generation,
          fitnesses, taskqueue, running, outqueue, yielded, calls, probs, rand,
          indices, fit_organisms, cache, history>>

\* The evaluators callers supply (fitness_fn): functions of the organism.
FitnessFns == {"x", "x_minus_y"}
Fitness(fn, org) == IF fn = "x" THEN org.x ELSE org.x - org.y

\* The genus populations are built for (its organisms have x and y).
PopulationGenera == {1}

\* Keyword arguments a caller may pass as a genome: any values for any of
\* these names, a gene name or not.
KwNames == {"x", "y", "w", "genus"}
Kwargs == UNION {[S -> Vals] : S \in SUBSET KwNames}

\* The initial_genome arguments tried on Population: none, a valid genome,
\* one with a value outside its domain and a gene missing, one with a key
\* that is no gene, and one with the key genus.
InitialGenomes ==
  {None, [x |-> MaxVal, y |-> 1], [x |-> MaxVal + 1], [w |-> 1, y |-> 1],
   [genus |-> 1, x |-> 1]}

NoCall == [op |-> "none", genus |-> 0, kwargs |-> << >>, self |-> None, other |-> None]
NoCache == [genomes |-> << >>, fitnesses |-> << >>]

\* The state before anything is constructed.
Blank ==
  /\ call = NoCall /\ ret = Return(None)
  /\ after = [self |-> None, other |-> None]
  /\ pc = "start" /\ err = "none"
  /\ initial_genome = None /\ genus = 0 /\ size = 0 /\ fitness_fn = "x"
  /\ population = << >>
  /\ generations = 0 /\ multiprocessing = FALSE /\ workers = 0
  /\ generation = 0
  /\ fitnesses = << >> /\ taskqueue = 1 /\ running = << >> /\ outqueue = << >>
  /\ yielded = 0 /\ calls = << >>
  /\ probs = << >> /\ rand = << >> /\ indices = << >> /\ fit_organisms = << >>
  /\ cache = NoCache
  /\ history = NewHistory

\* ------------------------------------------------------------ Population
\* Population.__init__(genus, size, fitness_fn, initial_genome): the
\* population list it can build, or the exception of the first organism
\* that fails.  "if initial_genome:" is false for None and for an empty dict.
NewPopulation(g, n, genome) ==
  IF genome # None /\ DOMAIN genome # {}
    THEN {Collect(rs) : rs \in [1..n -> Organism(g, genome)]}
    ELSE create_organisms(g, n)

Population__init__ ==
  /\ pc = "start"
  /\ \E g \in PopulationGenera, n \in 1..MaxSize, fn \in FitnessFns,
        genome \in InitialGenomes :
       \E r \in NewPopulation(g, n, genome) :
         /\ initial_genome' = genome
         /\ genus' = g /\ size' = n /\ fitness_fn' = fn
         /\ population' = r.all
         /\ err' = r.exc
         /\ pc' = IF r.exc = "none" THEN "ready" ELSE "raised"
  /\ UNCHANGED <<orgVars, argVars, generation, fitnesses, poolVars, calls,
                 selVars, history>>

\* breeding_pool = 0.20 and mutation_pool = 0.20, evolve's defaults, in percent.
BreedingPool == 20
MutationPool == 20

\* breeders = max(2, np.ceil(self.size * breeding_pool).astype(int))
Breeders(n) ==
  LET c == (n * BreedingPool + 99) \div 100
  IN  IF c > 2 THEN c ELSE 2

\* The start of get_fit_organisms (lines 116-124): fitnesses = np.zeros(pop.size),
\* and with multiprocessing a fresh Pool(workers) whose tasks are the
\* organisms in order.
EnterGetFitOrganisms(mp, w) ==
  /\ fitnesses' = [i \in 1..size |-> 0]
  /\ calls' = [i \in 1..size |-> 0]
  /\ taskqueue' = 1
  /\ running' = IF mp THEN [k \in 1..w |-> 0] ELSE << >>
  /\ outqueue' = << >>
  /\ yielded' = 0

\* evolve(generations, multiprocessing = ..., workers = ...) up to the first
\* call of get_fit_organisms, or to its return when there is no generation
\* to run.
evolve ==
  /\ pc = "ready"
  /\ \E g \in {0, MaxGenerations}, mp \in BOOLEAN, w \in {1, MaxWorkers} :
       /\ mp \/ w = 1
       /\ generations' = g /\ multiprocessing' = mp /\ workers' = w
       /\ history' = NewHistory
       /\ generation' = 0
       /\ IF g > 0
            THEN pc' = "fitness" /\ EnterGetFitOrganisms(mp, w)
            ELSE pc' = "returned" /\ UNCHANGED <<fitnesses, calls, poolVars>>
  /\ UNCHANGED <<orgVars, err, popVars, selVars>>

\* Lines 133-140, multiprocessing off: enumerate(map(fn, pop)) evaluates
\* the organisms one after the other and stores each value at its index.
map_fitness ==
  /\ pc = "fitness" /\ ~multiprocessing
  /\ fitnesses' = [i \in 1..size |-> Fitness(fitness_fn, population[i])]
  /\ calls' = [i \in 1..size |-> calls[i] + 1]
  /\ yielded' = size
  /\ pc' = "select"
  /\ UNCHANGED <<orgVars, err, popVars, argVars, generation, taskqueue,
                 running, outqueue, selVars, history>>

\* Lines 124-126, a pool worker takes the next task: pool.imap(fn, pop)
\* queues one task per organism, in order.
worker_get(w) ==
  /\ pc = "fitness" /\ multiprocessing
  /\ w \in DOMAIN running /\ running[w] = 0 /\ taskqueue <= size
  /\ running' = [running EXCEPT ![w] = taskqueue]
  /\ taskqueue' = taskqueue + 1
  /\ UNCHANGED <<orgVars, pc, err, popVars, argVars, generation, fitnesses,
                 outqueue, yielded, calls, selVars, history>>

\* A pool worker finishes its task: it ran fn on its copy of the organism
\* and sends back the value with the task's index.
worker_put(w) ==
  /\ pc = "fitness" /\ multiprocessing
  /\ w \in DOMAIN running /\ running[w] # 0
  /\ outqueue' = Append(outqueue,
                   <<running[w], Fitness(fitness_fn, population[running[w]])>>)
  /\ calls' = [calls EXCEPT ![running[w]] = @ + 1]
  /\ running' = [running EXCEPT ![w] = 0]
  /\ UNCHANGED <<orgVars, pc, err, popVars, argVars, generation, fitnesses,
                 taskqueue, yielded, selVars, history>>

\* A faulty iterator (pool.imap_unordered): it yields the results in the
\* order in which they arrived.
imap_unordered_ready(results, n) ==
  IF n < Len(results) THEN {results[n + 1]} ELSE {}

\* pool.imap's iterator after n results were taken: it yields the result of
\* task n + 1 once that one has arrived, whatever else has arrived before.
imap_ready(results, n) ==
  {results[k] : k \in {j \in DOMAIN results : results[j][1] = n + 1}}

\* Lines 126-132: for (i, new_fitness) in enumerate(pool.imap(fn, pop)):
\* fitnesses[i] = new_fitness.  After the last one the with block is left
\* and the pool, with its queues, is gone.
imap_next ==
  /\ pc = "fitness" /\ multiprocessing
  /\ \E r \in imap_ready(outqueue, yielded) :
       fitnesses' = [fitnesses EXCEPT ![yielded + 1] = r[2]]
  /\ yielded' = yielded + 1
  /\ IF yielded + 1 = size
       THEN pc' = "select" /\ taskqueue' = 1 /\ running' = << >>
            /\ outqueue' = << >>
       ELSE pc' = "fitness" /\ UNCHANGED <<taskqueue, running, outqueue>>
  /\ UNCHANGED <<orgVars, err, popVars, argVars, generation, calls, selVars,
                 history>>

\* A faulty cache: the genomes of self.population, which is sorted by then,
\* next to the fitnesses in the order before sorting.
CacheOfSorted(pop, sorted_pop, fits) ==
  [genomes |-> sorted_pop, fitnesses |-> fits]

\* Lines 169-172: the cache pairs the organisms' dictionaries, in the order
\* pop had before it was sorted, with the fitnesses array.
CacheOf(pop, sorted_pop, fits) ==
  [genomes |-> pop, fitnesses |-> fits]

\* Lines 142-175, the rest of get_fit_organisms: normalise, sort the
\* probabilities and the population in descending order, draw amount random
\* numbers, find a position for each, and return the organisms there.
select ==
  /\ pc = "select"
  /\ LET pop == population
         p == Probabilities(fitnesses)
     IN  \E idx \in sorted_idx(p), r \in [1..Breeders(size) -> 0..(UDen - 1)] :
           LET sorted_probs == [j \in 1..Len(p) |-> p[idx[j]]]
               sorted_pop == [j \in 1..Len(p) |-> pop[idx[j]]]
               found == [i \in DOMAIN r |-> FitIndex(sorted_probs, r[i])]
           IN  /\ probs' = sorted_probs
               /\ population' = sorted_pop
               /\ rand' = r
               /\ indices' = found
               /\ fit_organisms' = [i \in DOMAIN r |-> sorted_pop[found[i]]]
               /\ cache' = CacheOf(pop, sorted_pop, fitnesses)
  /\ pc' = "record"
  /\ UNCHANGED <<orgVars, err, initial_genome, genus, size, fitness_fn,
                 argVars, generation, fitnesses, poolVars, calls, history>>

\* Line 216: history.add_entry(cache)
record ==
  /\ pc = "record"
  /\ history' = add_entry(history, cache)
  /\ pc' = "breed"
  /\ UNCHANGED <<orgVars, err, popVars, argVars, generation, fitnesses,
                 poolVars, calls, selVars>>

\* The masks np.less(np.random.random(size), mutation_pool) can give.
Mutators(n) ==
  IF MutationPool = 0 THEN {{}}
  ELSE IF MutationPool >= 100 THEN {1..n}
  ELSE SUBSET (1..n)

\* Lines 224-226: mutate() on each masked child, in order.
MutateChildren(children) ==
  {Collect(rs) :
     rs \in UNION {{f \in [DOMAIN children ->
                             UNION {mutate(children[i]) \cup {Return(children[i])} :
                                      i \in DOMAIN children}] :
                      \A i \in DOMAIN children :
                        f[i] \in IF i \in m THEN mutate(children[i])
                                            ELSE {Return(children[i])}} :
                   m \in Mutators(Len(children))}}

\* Lines 219-226: size children, each bred from two organisms drawn from
\* fit_organisms, then mutated; the list of children, or the first exception.
NextGeneration(fit, n) ==
  LET births == UNION {breed(fit[a], fit[b]) : a, b \in DOMAIN fit}
  IN  UNION {IF c.exc # "none" THEN {c} ELSE MutateChildren(c.all) :
               c \in {Collect(rs) : rs \in [1..n -> births]}}

\* Lines 219-229 and the loop's next test: breed and mutate; an exception
\* leaves evolve, otherwise the children become the population and evolve
\* goes on to the next generation or returns the history.
breed_children ==
  /\ pc = "breed"
  /\ \E r \in NextGeneration(fit_organisms, size) :
       IF r.exc # "none"
         THEN /\ pc' = "raised" /\ err' = r.exc
              /\ UNCHANGED <<population, generation, fitnesses, calls, poolVars>>
         ELSE /\ population' = r.all
              /\ generation' = generation + 1
              /\ err' = err
              /\ IF generation + 1 < generations
                   THEN pc' = "fitness" /\ EnterGetFitOrganisms(multiprocessing, workers)
                   ELSE pc' = "returned" /\ UNCHANGED <<fitnesses, calls, poolVars>>
  /\ UNCHANGED <<orgVars, initial_genome, genus, size, fitness_fn, argVars,
                 selVars, history>>

Init == Blank

Next ==
  \/ Population__init__
  \/ evolve
  \/ map_fitness
  \/ \E w \in 1..MaxWorkers : worker_get(w)
  \/ \E w \in 1..MaxWorkers : worker_put(w)
  \/ imap_next
  \/ select
  \/ record
  \/ breed_children

Spec == Init /\ [][Next]_vars

\* ------------------------------------------- calls on single organisms
\* Organism(genus, **kwargs) by a caller.
new_organism ==
  /\ pc = "start"
  /\ \E g \in Genera, kwargs \in Kwargs :
       \E r \in Organism(g, kwargs) :
         /\ call' = [NoCall EXCEPT !.op = "Organism", !.genus = g, !.kwargs = kwargs]
         /\ ret' = r
         /\ after' = [self |-> r.val, other |-> None]
  /\ pc' = "called"
  /\ UNCHANGED <<err, popVars, argVars, generation, fitnesses, poolVars,
                 calls, selVars, history>>

\* self.breed(other) on two organisms, of one genus or of two.  breed
\* assigns to neither parent.
call_breed ==
  /\ pc = "start"
  /\ \E g1 \in Genera, g2 \in Genera :
       \E self \in Organisms(g1), other \in Organisms(g2) :
         \E r \in breed(self, other) :
           /\ call' = [NoCall EXCEPT !.op = "breed", !.self = self, !.other = other]
           /\ ret' = r
           /\ after' = [self |-> self, other |-> other]
  /\ pc' = "called"
  /\ UNCHANGED <<err, popVars, argVars, generation, fitnesses, poolVars,
                 calls, selVars, history>>

\* self.mutate(): it updates self in place and returns it; when it raises,
\* self is as it was.
call_mutate ==
  /\ pc = "start"
  /\ \E g \in Genera :
       \E self \in Organisms(g) :
         \E r \in mutate(self) :
           /\ call' = [NoCall EXCEPT !.op = "mutate", !.self = self]
           /\ ret' = r
           /\ after' = [self |-> IF r.exc = "none" THEN r.val ELSE self,
                        other |-> None]
  /\ pc' = "called"
  /\ UNCHANGED <<err, popVars, argVars, generation, fitnesses, poolVars,
                 calls, selVars, history>>

NextOrganism ==
  \/ new_organism
  \/ call_breed
  \/ call_mutate
  \/ Population__init__

SpecOrganism == Init /\ [][NextOrganism]_vars

\* ------------------------------------------------- calls on a History
\* The caches a caller may hand to add_entry: 1..MaxBatch genomes with as
\* many fitnesses, each in -MaxFit..MaxFit.
Caches ==
  UNION {{[genomes |-> g, fitnesses |-> f] :
            g \in [1..n -> Organisms(2)], f \in [1..n -> (0 - MaxFit)..MaxFit]} :
         n \in 1..MaxBatch}

\* history.add_entry(cache) by a caller, on a History that starts empty.
call_add_entry ==
  /\ pc = "start"
  /\ Len(history.fitness_history) < MaxEntries
  /\ \E c \in Caches :
       /\ cache' = c
       /\ history' = add_entry(history, c)
  /\ UNCHANGED <<orgVars, pc, err, popVars, argVars, generation, fitnesses,
                 poolVars, calls, probs, rand, indices, fit_organisms>>

NextHistory == call_add_entry

SpecHistory == Init /\ [][NextHistory]_vars

\* ================================================================ claims
\* Gene keys of an organism: its attributes other than the genus reference.
GeneKeys(org) == DOMAIN org \ {"genus"}

\* An organism bound to genus g whose gene keys are g's gene names, with
\* every value in its gene's domain.
ValidOrganism(org, g) ==
  /\ "genus" \in DOMAIN org /\ org.genus = g
  /\ GeneKeys(org) = DOMAIN GenusDict(g)
  /\ \A k \in DOMAIN GenusDict(g) : org[k] \in GenusDict(g)[k]

RECURSIVE Concat(_)
Concat(seqs) == IF seqs = << >> THEN << >> ELSE Head(seqs) \o Concat(Tail(seqs))

\* ---------------------------------------------------------------- C1
FittestIsFirstMaximum(h) ==
  LET fs == Concat(h.fitness_history)
      gs == Concat(h.genome_history)
  IN  fs # << >> =>
        /\ h.fittest.fitness = Max(fs)
        /\ h.fittest.genome = gs[ArgMax(fs)]

\* C1: after every add_entry call (batches non-empty, fitnesses of any
\* sign), fittest.fitness is the maximum fitness of all batches recorded,
\* fittest.genome is the first recorded genome with that fitness, and the
\* fittest fitness did not decrease in the call.
C1_FittestIsMaximum ==
  [][/\ FittestIsFirstMaximum(history')
     /\ history'.fittest.fitness >= history.fittest.fitness]_vars

\* ---------------------------------------------------------------- C2
\* probs[0] + ... + probs[j-1] of the code, j counted from 1 here.
RECURSIVE Cumulative(_, _)
Cumulative(ps, j) == IF j = 1 THEN ps[1] ELSE Plus(Cumulative(ps, j - 1), ps[j])

SelectionDone ==
  pc \in {"record", "breed", "raised", "returned"} /\ indices # << >>

\* C2: with positive fitnesses, the position selection finds for a sample u
\* is the first one, in descending-probability order, whose cumulative
\* probability exceeds u: cum[j-1] <= u < cum[j].
C2_FirstExceedingPosition ==
  (SelectionDone /\ \A i \in DOMAIN fitnesses : fitnesses[i] > 0) =>
    \A i \in DOMAIN rand :
      /\ Greater(Cumulative(probs, indices[i]), rand[i])
      /\ indices[i] > 1 => ~Greater(Cumulative(probs, indices[i] - 1), rand[i])

\* ---------------------------------------------------------------- C3
\* C3: when the generation's fitnesses sum to zero or less, selection fails
\* with InvalidFitnessError, returns no organisms and no history entry is
\* recorded.
C3_InvalidFitnessRejected ==
  (SelectionDone /\ Sum(fitnesses) <= 0) =>
    /\ err = "InvalidFitnessError"
    /\ fit_organisms = << >>
    /\ history.fitness_history = << >>

\* ---------------------------------------------------------------- C4
ValidGenome(g, genome) ==
  /\ DOMAIN genome = DOMAIN GenusDict(g)
  /\ \A k \in DOMAIN genome : genome[k] \in GenusDict(g)[k]

Repaired(org, exc, g, genome) ==
  IF "genus" \in DOMAIN genome
    THEN exc = "TypeError"
    ELSE /\ exc = "none"
         /\ ValidOrganism(org, g)
         /\ \A k \in DOMAIN genome :
              (k \in DOMAIN GenusDict(g) /\ genome[k] \in GenusDict(g)[k])
                => org[k] = genome[k]

C5_EvolveReturnsHistory ==
  [][(pc # "start" /\ fitness_fn = "x" /\ size >= 1) =>
       /\ pc' # "raised"
       /\ pc' = "returned" =>
            Len(history'.fitness_history) = generations'
       /\ (pc = "ready" /\ generations' = 0) =>
            /\ pc' = "returned"
            /\ history' = NewHistory
            /\ population' = population]_vars

\* ---------------------------------------------------------------- C6
\* C6: for two organisms of one genus, breed returns an organism of that
\* genus whose value for every gene is one of the two parents' values for
\* it, and the parents are as they were.
C6_BreedReturnsChild ==
  (call.op = "breed" /\ call.self.genus = call.other.genus) =>
    /\ ret.exc = "none"
    /\ ValidOrganism(ret.val, call.self.genus)
    /\ \A k \in GeneKeys(ret.val) : ret.val[k] \in {call.self[k], call.other[k]}
    /\ after.self = call.self /\ after.other = call.other

\* ---------------------------------------------------------------- C7
\* C7: the evaluator runs at most once on each organism of a generation;
\* when selection starts it has run exactly once on each, every result has
\* been stored, and fitnesses[i] is the evaluator's value for organism i of
\* the population, for sequential evaluation and for every number of
\* workers and every order in which they finish.
C7_FitnessByIndex ==
  /\ \A i \in DOMAIN calls : calls[i] <= 1
  /\ pc = "fitness" =>
       \A i \in 1..yielded :
         calls[i] = 1 /\ fitnesses[i] = Fitness(fitness_fn, population[i])
  /\ pc = "select" =>
       /\ yielded = size
       /\ \A i \in 1..size :
            calls[i] = 1 /\ fitnesses[i] = Fitness(fitness_fn, population[i])

\* The fitness of the first organism has been stored although a worker
\* with a later organism, of another fitness, finished first.
C7_Witness ==
  /\ pc = "fitness" /\ multiprocessing /\ yielded >= 1
  /\ outqueue[1][1] # 1
  /\ outqueue[1][2] # fitnesses[1]

\* ---------------------------------------------------------------- C8
IsPrefix(old, new) ==
  /\ Len(old) <= Len(new)
  /\ \A i \in DOMAIN old : new[i] = old[i]

\* C8: during evolve no step removes or changes a recorded entry; the
\* history grows by exactly one entry in the step that records a
\* generation and in no other; that entry holds the generation's organisms
\* (the population, in some order) and at each index the fitness of the
\* genome at that index.
C8_HistoryAppendOnly ==
  [][pc # "ready" =>
       /\ IsPrefix(history.genome_history, history'.genome_history)
       /\ IsPrefix(history.fitness_history, history'.fitness_history)
       /\ Len(history'.genome_history) = Len(history'.fitness_history)
       /\ Len(history'.genome_history) =
            Len(history.genome_history) + (IF pc = "record" THEN 1 ELSE 0)
       /\ pc = "record" =>
            LET genomes == history'.genome_history[Len(history'.genome_history)]
                fits == history'.fitness_history[Len(history'.fitness_history)]
            IN  /\ Len(genomes) = size /\ Len(fits) = size
                /\ \E p \in IndexOrders(size) :
                     \A i \in 1..size : genomes[p[i]] = population[i]
                /\ \A i \in 1..size :
                     fits[i] = Fitness(fitness_fn, genomes[i])]_vars

\* A generation was recorded, selection had reordered the population, and
\* the step after the recording (breeding) has been taken.
C8_Witness ==
  /\ pc = "raised" /\ Len(history.genome_history) = 1
  /\ population # history.genome_history[1]
  /\ \E i, j \in 1..size : history.fitness_history[1][i] # history.fitness_history[1][j]

\* ---------------------------------------------------------------- C9
\* The Population has been constructed.
Constructed ==
  /\ pc \notin {"start", "called"}
  /\ pc = "raised" => generations > 0

\* C9: from construction (random, or from an initial genome, valid or not)
\* on, through evolve and the reordering selection does, the population has
\* exactly size organisms, each bound to the population's genus, with the
\* genus's gene names as gene keys and every value in its gene's domain.
C9_PopulationValid ==
  Constructed =>
    /\ Len(population) = size
    /\ \A i \in 1..size : ValidOrganism(population[i], genus)

\* Selection has reordered a population that was built from an initial
\* genome with a value outside its gene's domain.
C9_Witness ==
  /\ pc = "record"
  /\ initial_genome = [x |-> MaxVal + 1]
  /\ population # cache.genomes

\* ---------------------------------------------------------------- C10
\* C10: mutate on a valid organism does not raise, whatever it draws; it
\* leaves the genus reference and the set of keys as they were and every
\* gene value in its gene's domain.
C10_MutateCompletes ==
  call.op = "mutate" =>
    /\ ret.exc = "none"
    /\ DOMAIN after.self = DOMAIN call.self
    /\ ValidOrganism(after.self, call.self.genus)

====
